---- MODULE Spec2Model ----
(***************************************************************************)
(* Model of Aligner/CodecAlignerDataset.py: the construction of the        *)
(* CodecAlignerDataset (cache check, audit file, shuffle, partition,       *)
(* worker processes, pooling, speaker embeddings, cache save / load).      *)
(*                                                                         *)
(* One construction is a run of CodecAlignerDataset.__init__; the files of *)
(* the cache directory (aligner_train_cache.pt, files_used.txt) outlive    *)
(* it, so constructions follow each other over the same directory.         *)
(***************************************************************************)
EXTENDS Integers, Sequences, FiniteSets, TLC

\* ------------------------------------------------------------------ bounds
\* Largest number of keys of the path-to-transcript map.
MaxKeys == 2
\* Largest value of loading_processes.
MaxProcs == 2
\* SpecPartition: the longest key list and the largest worker count.
MaxN == 9
MaxW == 6
\* SpecWorker: the longest path_list of the one worker.
MaxPaths == 3
\* SpecShuffle: the longest list passed to fisher_yates_shuffle.
MaxShuffle == 4
\* SpecBuild: the longest shuffled key list.
MaxBuildKeys == 4
\* SpecView: the number of readers that call __getitem__ on one view.
MaxReaders == 2

\* ------------------------------------------------------- program constants
min_len_in_seconds == 1
max_len_in_seconds == 15
canonical_sr == 16000

\* ----------------------------------------------------------- environment
\* The audio files and transcripts the caller's map can name. Each file is
\* what sf.read, the resampler, the text frontend and the codec do with it.
AllPaths ==
  { "a16.wav", "b16.wav", "c48.wav", "long16.wav", "blank.wav",
    "unreadable.wav", "unknown.wav", "nocodec.wav", "malformed.wav",
    "noresample.wav" }

\* The files the maps of the constructions are drawn from, in the order a
\* map holds them.
MapPaths ==
  << "a16.wav", "c48.wav", "long16.wav", "blank.wav", "unreadable.wav",
     "unknown.wav", "nocodec.wav" >>

GoodFile ==
  [ readable |-> TRUE, sr |-> 16000, frames |-> 48000,
    transcript |-> <<104, 105>>, strict |-> "ok", permissive |-> "ok",
    resample |-> "ok", codec |-> "ok" ]

File(path) ==
  CASE path = "a16.wav"        -> GoodFile
    [] path = "b16.wav"        -> [GoodFile EXCEPT !.frames = 64000]
    [] path = "c48.wav"        -> [GoodFile EXCEPT !.sr = 48000, !.frames = 144000]
    [] path = "long16.wav"     -> [GoodFile EXCEPT !.frames = 320000]
    [] path = "blank.wav"      -> [GoodFile EXCEPT !.transcript = <<32, 9, 10>>]
    [] path = "unreadable.wav" -> [GoodFile EXCEPT !.readable = FALSE]
    [] path = "unknown.wav"    -> [GoodFile EXCEPT !.strict = "KeyError"]
    [] path = "malformed.wav"  -> [GoodFile EXCEPT !.strict = "ValueError"]
    [] path = "noresample.wav" -> [GoodFile EXCEPT !.resample = "ValueError"]
    [] path = "nocodec.wav"    -> [GoodFile EXCEPT !.codec = "error"]

\* The blob of a cache directory that holds no aligner_train_cache.pt, and
\* the blob torch.save leaves when it has opened the file and not finished.
NoFile == [kind |-> "absent"]
Partial == [kind |-> "partial"]

VARIABLES
  path_to_transcript_dict,  \* the caller's map: its keys in insertion order
  loading_processes,        \* arguments of the running construction
  rebuild_cache,
  allow_unknown_symbols,
  aligner_train_cache,      \* cache_dir/aligner_train_cache.pt
  files_used,               \* cache_dir/files_used.txt
  pc,                       \* where __init__ is
  key_list,
  shuffle_i,                \* loop index of fisher_yates_shuffle
  key_splits,
  started,                  \* number of processes started
  joined,                   \* number of processes joined
  result_pool,
  wstate, widx, wchunk, assumed_sr,   \* the worker processes
  datapoints, speaker_embeddings, norm_waves, filepaths,
  outcome,                  \* how the last construction ended
  factory,                  \* history: "dict" (a dict was passed), or the
                            \* passed function "uncalled" or "called"
  writes,                   \* history: files written by this construction
  cache_before,             \* history: the blob when this construction began
  draws,                    \* history: the pairs <<i, j>> of the calls
                            \* j = random.randint(0, i) of the shuffle
  saved,                    \* history: the corpus the last completed
                            \* torch.save was called with
  loop_reads,               \* history: the paths sf.read was called on in
                            \* the loops of the workers (line 133)
  loaded,                   \* history: the tuple torch.load returned to
                            \* this construction (line 104)
  ap,                       \* self.ap of the view: no decoder, or the one
                            \* that was assigned last
  rpc, ridx,                \* the readers: where each is in __getitem__,
                            \* and with which index
  speech,                   \* the readers: the decoder that made the local
                            \* speech of line 189, once that line has run
  got,                      \* what the __getitem__ that ended last
                            \* returned, and to which reader
  built,                    \* history: decoders each reader constructed
  overlap                   \* history: a __getitem__ was called while
                            \* another one was running

vars ==
  << path_to_transcript_dict, loading_processes, rebuild_cache,
     allow_unknown_symbols, aligner_train_cache, files_used, pc, key_list,
     shuffle_i, key_splits, started, joined, result_pool, wstate, widx,
     wchunk, assumed_sr, datapoints, speaker_embeddings, norm_waves,
     filepaths, outcome, factory, writes, cache_before, draws,
     saved, loop_reads, loaded, ap, rpc, ridx, speech, got, built, overlap >>

view == <<ap, rpc, ridx, speech, got, built, overlap>>

\* ------------------------------------------------------------ pure helpers
RECURSIVE Gcd(_, _)
Gcd(a, b) == IF b = 0 THEN a ELSE Gcd(b, a % b)

\* A transcript is the sequence of the code points (ord) of its characters.
\* The characters str.strip() removes when called without an argument are
\* those for which str.isspace() is true: tab, line feed, vertical tab,
\* form feed, carriage return, U+001C to U+001F, space, U+0085, U+00A0,
\* U+1680, U+2000 to U+200A, U+2028, U+2029, U+202F, U+205F and U+3000.
Whitespace ==
  (9..13) \cup (28..32) \cup {133, 160, 5760} \cup (8192..8202)
    \cup {8232, 8233, 8239, 8287, 12288}

\* str.strip() on a transcript.
RECURSIVE LStrip(_)
LStrip(s) == IF s # <<>> /\ Head(s) \in Whitespace THEN LStrip(Tail(s)) ELSE s

RECURSIVE RStrip(_)
RStrip(s) ==
  IF s # <<>> /\ s[Len(s)] \in Whitespace
    THEN RStrip(SubSeq(s, 1, Len(s) - 1))
    ELSE s

Strip(s) == RStrip(LStrip(s))

\* Python's lst[a:b] for 0 <= a <= b <= len(lst).
Slice(lst, a, b) == SubSeq(lst, a + 1, b)

\* The subsequences of at most n elements of the sequence all.
RECURSIVE Pick(_, _)
Pick(all, idx) ==
  IF all = <<>> THEN <<>>
  ELSE (IF Len(all) \in idx THEN Pick(SubSeq(all, 1, Len(all) - 1), idx)
                                  \o <<all[Len(all)]>>
        ELSE Pick(SubSeq(all, 1, Len(all) - 1), idx))

SubSeqsUpTo(all, n) ==
  { Pick(all, idx) : idx \in { x \in SUBSET (1..Len(all)) : Cardinality(x) <= n } }

RECURSIVE ConcatAll(_)
ConcatAll(ss) == IF ss = <<>> THEN <<>> ELSE Head(ss) \o ConcatAll(Tail(ss))

\* Mutant of Swap: lst[i] = lst[j] alone, the element at i is lost.
SwapOverwrites(lst, i, j) == [lst EXCEPT ![i] = lst[j]]

\* lst[i], lst[j] = lst[j], lst[i]
Swap(lst, i, j) == [lst EXCEPT ![i] = lst[j], ![j] = lst[i]]

\* The draws of a shuffle of n elements that moved none: j = i every time.
UnmovedDraws(n) == [k \in 1..(n - 1) |-> <<n - k, n - k>>]

\* ------------------------------------------------------------ partitioning
\* Mutant of KeySplits: the slice bounds i * (len // n) drop the remainder.
KeySplitsFloorFirst(lst, n) ==
  [ i \in 1..n |->
      Slice(lst, (i - 1) * (Len(lst) \div n), i * (Len(lst) \div n)) ]

\* key_list[i * len // n : (i + 1) * len // n] for i in range(n)
KeySplits(lst, n) ==
  [ i \in 1..n |->
      Slice(lst, ((i - 1) * Len(lst)) \div n, (i * Len(lst)) \div n) ]

\* ------------------------------------------------- the per-sample pipeline
\* Mutant of DurationOk: the upper bound is not checked.
DurationOkNoMax(count, rate) == min_len_in_seconds * rate <= count

\* min_len <= count / rate <= max_len
DurationOk(count, rate) ==
  /\ min_len_in_seconds * rate <= count
  /\ count <= max_len_in_seconds * rate

\* len(resample(wave)): ceil(frames * new / orig) with both rates reduced
\* by their gcd.
ResampledLen(frames, sr) ==
  LET g == Gcd(sr, canonical_sr)
      orig == sr \div g
      new == canonical_sr \div g
  IN  (frames * new + orig - 1) \div orig

Entry(path, f, missing) ==
  [ text   |-> [src |-> path, handle_missing |-> missing],
    speech |-> [src |-> path, sr |-> f.sr],
    wave   |-> [src |-> path, len |-> ResampledLen(f.frames, f.sr)],
    path   |-> path ]

\* Mutant of TextStage: a transcript that needed the permissive mode is kept
\* whatever allow_unknown_symbols says.
TextStageKeepsUnknown(path, f, allow_unknown) ==
  IF f.strict = "ValueError" THEN [kind |-> "skip", why |-> "text"]
  ELSE IF f.strict = "KeyError" /\ f.permissive # "ok"
    THEN [kind |-> "skip", why |-> "text"]
  ELSE IF f.codec = "ok"
    THEN [kind |-> "accept", why |-> "",
          entry |-> Entry(path, f, f.strict # "ok")]
    ELSE [kind |-> "raise", why |-> "codec"]

\* The text stage and the codec call of one iteration, lines 157 - 177.
TextStage(path, f, allow_unknown) ==
  IF f.strict = "ok" THEN
    IF f.codec = "ok"
      THEN [kind |-> "accept", why |-> "", entry |-> Entry(path, f, FALSE)]
      ELSE [kind |-> "raise", why |-> "codec"]
  ELSE IF f.strict = "ValueError" THEN [kind |-> "skip", why |-> "text"]
  ELSE IF f.permissive # "ok" THEN [kind |-> "skip", why |-> "text"]
  ELSE IF ~allow_unknown THEN [kind |-> "skip", why |-> "unknown"]
  ELSE IF f.codec = "ok"
    THEN [kind |-> "accept", why |-> "", entry |-> Entry(path, f, TRUE)]
    ELSE [kind |-> "raise", why |-> "codec"]

\* Mutant of ProcessSample: the sampling rate is not compared.
ProcessSampleAnyRate(path, assumed, allow_unknown) ==
  LET f == File(path) IN
  IF Strip(f.transcript) = <<>> THEN [kind |-> "skip", why |-> "empty"]
  ELSE IF ~f.readable THEN [kind |-> "skip", why |-> "audio"]
  ELSE IF ~DurationOk(f.frames, f.sr) THEN [kind |-> "skip", why |-> "duration"]
  ELSE IF f.resample # "ok" THEN [kind |-> "skip", why |-> "resample"]
  ELSE IF ~DurationOk(ResampledLen(f.frames, f.sr), canonical_sr)
    THEN [kind |-> "skip", why |-> "duration"]
  ELSE TextStage(path, f, allow_unknown)

\* Mutant of ProcessSample: the transcript is not looked at before the
\* audio is.
ProcessSampleKeepsBlank(path, assumed, allow_unknown) ==
  LET f == File(path) IN
  IF ~f.readable THEN [kind |-> "skip", why |-> "audio"]
  ELSE IF f.sr # assumed THEN [kind |-> "skip", why |-> "rate"]
  ELSE IF ~DurationOk(f.frames, f.sr) THEN [kind |-> "skip", why |-> "duration"]
  ELSE IF f.resample # "ok" THEN [kind |-> "skip", why |-> "resample"]
  ELSE IF ~DurationOk(ResampledLen(f.frames, f.sr), canonical_sr)
    THEN [kind |-> "skip", why |-> "duration"]
  ELSE TextStage(path, f, allow_unknown)

\* One iteration of the loop over path_list: "skip" (continue), "accept"
\* (the appended entry) or "raise" (an exception leaves the loop).
ProcessSample(path, assumed, allow_unknown) ==
  LET f == File(path) IN
  IF Strip(f.transcript) = <<>> THEN [kind |-> "skip", why |-> "empty"]
  ELSE IF ~f.readable THEN [kind |-> "skip", why |-> "audio"]
  ELSE IF f.sr # assumed THEN [kind |-> "skip", why |-> "rate"]
  ELSE IF ~DurationOk(f.frames, f.sr) THEN [kind |-> "skip", why |-> "duration"]
  ELSE IF f.resample # "ok" THEN [kind |-> "skip", why |-> "resample"]
  ELSE IF ~DurationOk(ResampledLen(f.frames, f.sr), canonical_sr)
    THEN [kind |-> "skip", why |-> "duration"]
  ELSE TextStage(path, f, allow_unknown)

\* sf.read(path) of line 133 is reached: line 129 did not continue.
AudioRead(path) == Strip(File(path).transcript) # <<>>

\* ------------------------------------------------------------- assembling
\* Mutant of PooledDatapoints: every chunk is unpacked from its end.
PooledChunksReversed(pool) ==
  ConcatAll([i \in 1..Len(pool) |->
               [k \in 1..Len(pool[i].chunk) |->
                  pool[i].chunk[Len(pool[i].chunk) + 1 - k]]])

\* Mutant of PooledDatapoints: the last chunk of the pool is left out.
PooledDropLast(pool) ==
  ConcatAll([i \in 1..(Len(pool) - 1) |-> pool[i].chunk])

\* for chunk in self.result_pool: for datapoint in chunk: append
PooledDatapoints(pool) == ConcatAll([i \in 1..Len(pool) |-> pool[i].chunk])

TextTensors(pooled) == [i \in 1..Len(pooled) |-> pooled[i].text]
SpeechTensors(pooled) == [i \in 1..Len(pooled) |-> pooled[i].speech]
\* Mutant of NormWaves: the waves come out in the opposite order.
NormWavesReversed(pooled) ==
  [i \in 1..Len(pooled) |-> pooled[Len(pooled) + 1 - i].wave]

NormWaves(pooled) == [i \in 1..Len(pooled) |-> pooled[i].wave]
FilePaths(pooled) == [i \in 1..Len(pooled) |-> pooled[i].path]
Zip(a, b) == [i \in 1..Len(a) |-> <<a[i], b[i]>>]

\* speaker_embedding_func_ecapa.encode_batch(wavs=wave)
Embedding(wave) == [of |-> wave.src, len |-> wave.len]
Embeddings(waves) == [i \in 1..Len(waves) |-> Embedding(waves[i])]

\* torch.save((datapoints, None, speaker_embeddings, filepaths), path)
\* writes an archive of two parts: the pickle of the tuple, in which every
\* tensor is replaced by a reference to a storage, and the storages, one
\* record per tensor, under the keys 0, 1, 2, ... in the order in which the
\* pickler meets the tensors: the two members of the first pair, of the
\* second pair, ..., then the embeddings. Every tensor of the corpus is a
\* CPU tensor (torch.ShortTensor at lines 80 and 82, .cpu() at line 95), so
\* every storage is tagged "cpu"; strings and None are pickled in place.
TextKey(i) == 2 * (i - 1)
\* Mutant of SpeechKey: the speech codes of a pair are given the key of its
\* token sequence.
SpeechKeySameAsText(i) == 2 * (i - 1)

SpeechKey(i) == 2 * (i - 1) + 1
EmbeddingKey(n, i) == 2 * n + (i - 1)
TensorRef(key) == [persistent_id |-> "storage", key |-> key]
Storage(tensor) == [location |-> "cpu", content |-> tensor]

Pickle(dps, embs, paths) ==
  << [i \in 1..Len(dps) |-> <<TensorRef(TextKey(i)), TensorRef(SpeechKey(i))>>],
     "None",
     [i \in 1..Len(embs) |-> TensorRef(EmbeddingKey(Len(dps), i))],
     paths >>

Storages(dps, embs) ==
  [k \in 1..(2 * Len(dps) + Len(embs)) |->
     IF k <= 2 * Len(dps)
       THEN Storage(dps[(k + 1) \div 2][2 - (k % 2)])
       ELSE Storage(embs[k - 2 * Len(dps)])]

Blob(dps, embs, paths) ==
  [kind |-> "blob", pkl |-> Pickle(dps, embs, paths),
   data |-> Storages(dps, embs)]

\* torch.load(path, map_location='cpu'): the pickle is read back with every
\* reference replaced by the tensor rebuilt from the storage of its key
\* (keys count from 0, positions from 1); map_location='cpu' leaves the
\* storages, all tagged "cpu", where they are. The result is the tuple of
\* four.
Rebuild(blob, ref) == blob.data[ref.key + 1].content

TorchLoad(blob) ==
  << [i \in 1..Len(blob.pkl[1]) |->
        << Rebuild(blob, blob.pkl[1][i][1]),
           Rebuild(blob, blob.pkl[1][i][2]) >>],
     blob.pkl[2],
     [i \in 1..Len(blob.pkl[3]) |-> Rebuild(blob, blob.pkl[3][i])],
     blob.pkl[4] >>

\* No torch.load has returned.
NotLoaded == <<>>

\* The collections torch.save is called with, and none of them.
Corpus(dps, embs, paths) ==
  [datapoints |-> dps, speaker_embeddings |-> embs, filepaths |-> paths]

NoCorpus == Corpus(<<>>, <<>>, <<>>)

\* Mutant of LoadedDatapoints: the two members of every pair change places.
LoadedDatapointsSwapped(tuple) ==
  [i \in 1..Len(tuple[1]) |-> <<tuple[1][i][2], tuple[1][i][1]>>]

\* self.datapoints = self.datapoints[0], of the tuple torch.load returned
\* (positions are 0-based in the source, 1-based here)
LoadedDatapoints(tuple) == tuple[1]

\* self.speaker_embeddings = self.datapoints[2]
LoadedSpeakerEmbeddings(tuple) == tuple[3]

\* Mutant of AuditText: the first key is not written.
AuditTextDropsFirst(keys) ==
  [kind |-> "text", keys |-> IF keys = <<>> THEN <<>> ELSE Tail(keys)]

\* files_used_note.write(str(key_list))
AuditText(keys) == [kind |-> "text", keys |-> keys]

Exists(blob) == blob.kind # "absent"
Loadable(blob) == blob.kind = "blob"

Procs == 0..(loading_processes - 1)
Terminated(w) == wstate[w] \in {"done", "crashed"}

\* ------------------------------------------------------------------- Init
WorkerIds == 0..(MaxProcs - 1)

\* The readers of a view, self.ap = None, and what a reader that has not
\* called __getitem__ holds.
Readers == 1..MaxReaders
NoDecoder == [by |-> 0, nth |-> 0]
NoItem == [kind |-> "none"]

\* No reader has called __getitem__.
NoReader ==
  /\ ap = NoDecoder
  /\ rpc = [r \in Readers |-> "idle"]
  /\ ridx = [r \in Readers |-> 0]
  /\ speech = [r \in Readers |-> NoDecoder]
  /\ got = [reader |-> 0, item |-> NoItem]
  /\ built = [r \in Readers |-> 0]
  /\ overlap = FALSE

\* What a construction starts from: nothing of the object exists yet.
Fresh ==
  /\ key_splits' = <<>>
  /\ started' = 0
  /\ joined' = 0
  /\ result_pool' = <<>>
  /\ wstate' = [w \in WorkerIds |-> "unstarted"]
  /\ widx' = [w \in WorkerIds |-> 0]
  /\ wchunk' = [w \in WorkerIds |-> <<>>]
  /\ assumed_sr' = [w \in WorkerIds |-> 0]
  /\ datapoints' = <<>>
  /\ speaker_embeddings' = <<>>
  /\ norm_waves' = <<>>
  /\ filepaths' = <<>>

InitObject ==
  /\ pc = "idle"
  /\ key_list = <<>>
  /\ shuffle_i = 0
  /\ key_splits = <<>>
  /\ started = 0
  /\ joined = 0
  /\ result_pool = <<>>
  /\ wstate = [w \in WorkerIds |-> "unstarted"]
  /\ widx = [w \in WorkerIds |-> 0]
  /\ wchunk = [w \in WorkerIds |-> <<>>]
  /\ assumed_sr = [w \in WorkerIds |-> 0]
  /\ datapoints = <<>>
  /\ speaker_embeddings = <<>>
  /\ norm_waves = <<>>
  /\ filepaths = <<>>
  /\ loading_processes = 1
  /\ rebuild_cache = FALSE
  /\ allow_unknown_symbols = FALSE
  /\ outcome = "none"
  /\ factory = "dict"
  /\ writes = {}
  /\ cache_before = NoFile
  /\ draws = <<>>
  /\ saved = NoCorpus
  /\ loop_reads = {}
  /\ loaded = NotLoaded
  /\ NoReader

Init ==
  /\ path_to_transcript_dict \in SubSeqsUpTo(MapPaths, MaxKeys)
  /\ aligner_train_cache = NoFile
  /\ files_used = NoFile
  /\ InitObject

\* ------------------------------------------------- __init__: lines 32 - 41
\* With the cache blob present and no rebuild asked for, the else branch
\* (line 102) is taken. Otherwise the map is materialised, the key list
\* taken and the audit file written; the shuffle follows.
\* Mutant of BuildNeeded: a blob that cannot be loaded is rebuilt.
BuildNeededIfUnloadable(blob, rebuild) == ~Loadable(blob) \/ rebuild

\* Mutant of BuildNeeded: the "not" is missing.
BuildNeededNoNot(blob, rebuild) == Exists(blob) \/ rebuild

\* not os.path.exists(.../aligner_train_cache.pt) or rebuild_cache
BuildNeeded(blob, rebuild) == ~Exists(blob) \/ rebuild

Construct(procs, rebuild, allow, is_function) ==
  /\ pc = "idle"
  /\ Fresh
  /\ loading_processes' = procs
  /\ rebuild_cache' = rebuild
  /\ allow_unknown_symbols' = allow
  /\ cache_before' = aligner_train_cache
  /\ draws' = <<>>
  /\ loop_reads' = {}
  /\ loaded' = NotLoaded
  /\ outcome' = "none"
  /\ UNCHANGED <<path_to_transcript_dict, aligner_train_cache, saved, view>>
  /\ IF BuildNeeded(aligner_train_cache, rebuild)
       THEN /\ factory' = IF is_function THEN "called" ELSE "dict"
            /\ files_used' = AuditText(path_to_transcript_dict)
            /\ writes' = {"files_used"}
            /\ key_list' = path_to_transcript_dict
            /\ shuffle_i' = Len(path_to_transcript_dict) - 1
            /\ pc' = "shuffle"
       ELSE /\ factory' = IF is_function THEN "uncalled" ELSE "dict"
            /\ writes' = {}
            /\ pc' = "load"
            /\ key_list' = <<>>
            /\ shuffle_i' = 0
            /\ UNCHANGED files_used

args == <<path_to_transcript_dict, loading_processes, rebuild_cache,
          allow_unknown_symbols>>
disk == <<aligner_train_cache, files_used>>
history == <<factory, writes, cache_before, draws, saved, loop_reads, loaded>>
workers == <<wstate, widx, wchunk, assumed_sr>>
corpus == <<datapoints, speaker_embeddings, norm_waves, filepaths>>

\* --------------------------------------- fisher_yates_shuffle: lines 200-203
\* One pass of the loop body: i runs from len - 1 down to 1, j is drawn
\* from 0..i (list positions are 0-based in the source, 1-based here).
ShuffleStep ==
  /\ pc = "shuffle"
  /\ shuffle_i >= 1
  /\ \E j \in 0..shuffle_i :
       /\ key_list' = Swap(key_list, shuffle_i + 1, j + 1)
       /\ draws' = Append(draws, <<shuffle_i, j>>)
  /\ shuffle_i' = shuffle_i - 1
  /\ UNCHANGED <<view, args, disk, factory, writes, cache_before, saved,
                 loop_reads, loaded, workers, corpus, pc, key_splits, started, joined,
                 result_pool, outcome>>

\* ------------------------------------------------- __init__: lines 45 - 51
Partition ==
  /\ pc = "shuffle"
  /\ shuffle_i < 1
  /\ result_pool' = <<>>
  /\ key_splits' = KeySplits(key_list, loading_processes)
  /\ pc' = "start"
  /\ UNCHANGED <<view, args, disk, history, workers, corpus, key_list, shuffle_i,
                 started, joined, outcome>>

\* ------------------------------------------------- __init__: lines 52 - 64
\* One pass of the loop: the next process is made and started.
StartProcess ==
  /\ pc = "start"
  /\ started < loading_processes
  /\ wstate' = [wstate EXCEPT ![started] = "spawned"]
  /\ started' = started + 1
  /\ pc' = IF started + 1 = loading_processes THEN "join" ELSE "start"
  /\ UNCHANGED <<view, args, disk, history, corpus, key_list, shuffle_i, key_splits,
                 joined, result_pool, widx, wchunk, assumed_sr, outcome>>

\* ------------------------------------------------- __init__: lines 65 - 66
\* Mutant of Joinable: the coordinator does not wait for the process.
JoinableAtOnce(w) == TRUE

\* process.join() returns once the process has ended, however it ended.
Joinable(w) == Terminated(w)

JoinProcess ==
  /\ pc = "join"
  /\ joined < loading_processes
  /\ Joinable(joined)
  /\ joined' = joined + 1
  /\ pc' = IF joined + 1 = loading_processes THEN "pool" ELSE "join"
  /\ UNCHANGED <<view, args, disk, history, workers, corpus, key_list, shuffle_i,
                 key_splits, started, result_pool, outcome>>

\* ------------------------------------------------- __init__: lines 67 - 86
Pool ==
  /\ pc = "pool"
  /\ LET pooled == PooledDatapoints(result_pool) IN
       /\ result_pool' = <<>>
       /\ datapoints' = Zip(TextTensors(pooled), SpeechTensors(pooled))
       /\ norm_waves' = NormWaves(pooled)
       /\ filepaths' = FilePaths(pooled)
  /\ pc' = "embed"
  /\ UNCHANGED <<view, args, disk, history, workers, speaker_embeddings, key_list,
                 shuffle_i, key_splits, started, joined, outcome>>

\* ------------------------------------------------- __init__: lines 88 - 95
AddSpeakerEmbeddings ==
  /\ pc = "embed"
  /\ speaker_embeddings' = Embeddings(norm_waves)
  /\ pc' = "save"
  /\ UNCHANGED <<view, args, disk, history, workers, datapoints, norm_waves,
                 filepaths, key_list, shuffle_i, key_splits, started, joined,
                 result_pool, outcome>>

\* ------------------------------------------------ __init__: lines 97 - 101
\* Mutant of NothingToSave: the emptiness check never fires.
NothingToSaveNever(dps) == FALSE

\* if len(self.datapoints) == 0: raise RuntimeError
NothingToSave(dps) == Len(dps) = 0

RaiseNoDatapoints ==
  /\ pc = "save"
  /\ NothingToSave(datapoints)
  /\ outcome' = "RuntimeError"
  /\ pc' = "idle"
  /\ UNCHANGED <<view, args, disk, history, workers, corpus, key_list, shuffle_i,
                 key_splits, started, joined, result_pool>>

\* torch.save cannot open aligner_train_cache.pt for writing (the directory
\* is gone or read-only): it raises before the file is touched, and the
\* construction ends with the blob as it was.
SaveOpenFail ==
  /\ pc = "save"
  /\ ~NothingToSave(datapoints)
  /\ outcome' = "SaveError"
  /\ pc' = "idle"
  /\ UNCHANGED <<view, args, disk, history, workers, corpus, key_list, shuffle_i,
                 key_splits, started, joined, result_pool>>

\* torch.save opens aligner_train_cache.pt for writing, which empties it,
\* and then writes the tuple into it.
SaveOpen ==
  /\ pc = "save"
  /\ ~NothingToSave(datapoints)
  /\ aligner_train_cache' = Partial
  /\ saved' = NoCorpus
  /\ writes' = writes \cup {"aligner_train_cache"}
  /\ pc' = "saving"
  /\ UNCHANGED <<view, args, files_used, factory, cache_before, draws,
                 loop_reads, loaded, workers, corpus, key_list, shuffle_i, key_splits, started, joined,
                 result_pool, outcome>>

SaveFinish ==
  /\ pc = "saving"
  /\ aligner_train_cache' = Blob(datapoints, speaker_embeddings, filepaths)
  /\ saved' = Corpus(datapoints, speaker_embeddings, filepaths)
  /\ pc' = "finish"
  /\ UNCHANGED <<view, args, files_used, factory, writes, cache_before, draws,
                 loop_reads, loaded, workers, corpus, key_list, shuffle_i, key_splits, started,
                 joined, result_pool, outcome>>

\* The write into the opened file fails or is interrupted (no space left,
\* the process is killed).
SaveFail ==
  /\ pc = "saving"
  /\ outcome' = "SaveError"
  /\ pc' = "idle"
  /\ UNCHANGED <<view, args, disk, history, workers, corpus, key_list, shuffle_i,
                 key_splits, started, joined, result_pool>>

\* ----------------------------------------------- __init__: lines 102 - 106
Load ==
  /\ pc = "load"
  /\ Loadable(aligner_train_cache)
  /\ loaded' = TorchLoad(aligner_train_cache)
  /\ datapoints' = LoadedDatapoints(loaded')
  /\ speaker_embeddings' = LoadedSpeakerEmbeddings(loaded')
  /\ pc' = "finish"
  /\ UNCHANGED <<view, args, disk, factory, writes, cache_before, draws, saved,
                 loop_reads, workers, norm_waves, filepaths,
                 key_list, shuffle_i, key_splits, started, joined,
                 result_pool, outcome>>

LoadFail ==
  /\ pc = "load"
  /\ ~Loadable(aligner_train_cache)
  /\ outcome' = "LoadError"
  /\ pc' = "idle"
  /\ UNCHANGED <<view, args, disk, history, workers, corpus, key_list, shuffle_i,
                 key_splits, started, joined, result_pool>>

\* ----------------------------------------------- __init__: lines 108 - 110
Finish ==
  /\ pc = "finish"
  /\ ap' = NoDecoder
  /\ outcome' = "returned"
  /\ pc' = "idle"
  /\ UNCHANGED <<rpc, ridx, speech, got, built, overlap, args, disk, history,
                 workers, corpus, key_list, shuffle_i,
                 key_splits, started, joined, result_pool>>

\* ----------------------------------- cache_builder_process: lines 121 - 126
PathList(w) == key_splits[w + 1]

\* Mutant of FirstReadFails: a first file that cannot be read is passed
\* over.
FirstReadFailsIfEmpty(path_list) == path_list = <<>>

\* _, sr = sf.read(path_list[0]) raises: IndexError for an empty path_list,
\* the error of sf.read for a file that cannot be read.
FirstReadFails(path_list) ==
  path_list = <<>> \/ ~File(path_list[1]).readable

\* sf.read(path_list[0]) sets the assumed sampling rate; nothing catches
\* what it raises.
WorkerInit(w) ==
  /\ wstate[w] = "spawned"
  /\ IF FirstReadFails(PathList(w))
       THEN /\ wstate' = [wstate EXCEPT ![w] = "crashed"]
            /\ UNCHANGED <<widx, assumed_sr>>
       ELSE /\ wstate' = [wstate EXCEPT ![w] = "loop"]
            /\ widx' = [widx EXCEPT ![w] = 1]
            /\ assumed_sr' = [assumed_sr EXCEPT ![w] = File(PathList(w)[1]).sr]
  /\ UNCHANGED <<view, args, disk, history, corpus, wchunk, pc, key_list, shuffle_i,
                 key_splits, started, joined, result_pool, outcome>>

\* ----------------------------------- cache_builder_process: lines 128 - 177
WorkerStep(w) ==
  /\ wstate[w] = "loop"
  /\ widx[w] <= Len(PathList(w))
  /\ LET r == ProcessSample(PathList(w)[widx[w]], assumed_sr[w],
                            allow_unknown_symbols)
     IN  CASE r.kind = "skip" ->
                /\ widx' = [widx EXCEPT ![w] = @ + 1]
                /\ UNCHANGED <<wstate, wchunk>>
           [] r.kind = "accept" ->
                /\ widx' = [widx EXCEPT ![w] = @ + 1]
                /\ wchunk' = [wchunk EXCEPT ![w] = Append(@, r.entry)]
                /\ UNCHANGED wstate
           [] r.kind = "raise" ->
                /\ wstate' = [wstate EXCEPT ![w] = "crashed"]
                /\ UNCHANGED <<widx, wchunk>>
  /\ loop_reads' = IF AudioRead(PathList(w)[widx[w]])
                     THEN loop_reads \cup {PathList(w)[widx[w]]}
                     ELSE loop_reads
  /\ UNCHANGED <<view, args, disk, factory, writes, cache_before, draws, saved,
                 loaded,
                 corpus, assumed_sr, pc, key_list, shuffle_i, key_splits,
                 started, joined, result_pool, outcome>>

\* ------------------------------------------ cache_builder_process: line 178
\* Mutant of LoopDone: the append does not wait for the end of the loop.
LoopDoneAnytime(w) == TRUE

\* The loop over path_list has run out.
LoopDone(w) == widx[w] > Len(PathList(w))

WorkerAppend(w) ==
  /\ wstate[w] = "loop"
  /\ LoopDone(w)
  /\ result_pool' = Append(result_pool, [owner |-> w, chunk |-> wchunk[w]])
  /\ wstate' = [wstate EXCEPT ![w] = "done"]
  /\ UNCHANGED <<view, args, disk, history, corpus, widx, wchunk, assumed_sr, pc,
                 key_list, shuffle_i, key_splits, started, joined, outcome>>

Next ==
  \/ \E procs \in 1..MaxProcs, rebuild, allow, is_function \in BOOLEAN :
       Construct(procs, rebuild, allow, is_function)
  \/ ShuffleStep
  \/ Partition
  \/ StartProcess
  \/ JoinProcess
  \/ Pool
  \/ AddSpeakerEmbeddings
  \/ RaiseNoDatapoints
  \/ SaveOpenFail
  \/ SaveOpen
  \/ SaveFinish
  \/ SaveFail
  \/ Load
  \/ LoadFail
  \/ Finish
  \/ \E w \in WorkerIds : WorkerInit(w) \/ WorkerStep(w) \/ WorkerAppend(w)

Spec == Init /\ [][Next]_vars

\* ------------------------------------------------ partition-only behaviours
\* The partition of lines 47 - 51 on key lists of up to MaxN keys and up to
\* MaxW processes, each from the state the shuffle leaves.
PartitionInit ==
  /\ \E n \in 0..MaxN :
       /\ path_to_transcript_dict = [i \in 1..n |-> i]
       /\ key_list = [i \in 1..n |-> i]
  /\ loading_processes \in 1..MaxW
  /\ shuffle_i = 0
  /\ pc = "shuffle"
  /\ rebuild_cache = FALSE
  /\ allow_unknown_symbols = FALSE
  /\ aligner_train_cache = NoFile
  /\ files_used = AuditText(path_to_transcript_dict)
  /\ key_splits = <<>>
  /\ started = 0
  /\ joined = 0
  /\ result_pool = <<>>
  /\ wstate = [w \in WorkerIds |-> "unstarted"]
  /\ widx = [w \in WorkerIds |-> 0]
  /\ wchunk = [w \in WorkerIds |-> <<>>]
  /\ assumed_sr = [w \in WorkerIds |-> 0]
  /\ datapoints = <<>>
  /\ speaker_embeddings = <<>>
  /\ norm_waves = <<>>
  /\ filepaths = <<>>
  /\ outcome = "none"
  /\ factory = "dict"
  /\ writes = {"files_used"}
  /\ cache_before = NoFile
  /\ draws = UnmovedDraws(Len(key_list))
  /\ saved = NoCorpus
  /\ loop_reads = {}
  /\ loaded = NotLoaded
  /\ NoReader

SpecPartition == PartitionInit /\ [][Partition]_vars

\* --------------------------------------------------- one-worker behaviours
\* The one process of a construction with loading_processes = 1, from the
\* state in which it was started, over every path_list of up to MaxPaths
\* files.
InjectiveSeqs(S, n) ==
  UNION { { q \in [1..m -> S] : \A i, j \in 1..m : i # j => q[i] # q[j] }
          : m \in 0..n }

WorkerSpecInit ==
  /\ path_to_transcript_dict \in InjectiveSeqs(AllPaths, MaxPaths)
  /\ key_list = path_to_transcript_dict
  /\ key_splits = <<key_list>>
  /\ shuffle_i = 0
  /\ loading_processes = 1
  /\ rebuild_cache = FALSE
  /\ allow_unknown_symbols \in BOOLEAN
  /\ aligner_train_cache = NoFile
  /\ files_used = AuditText(path_to_transcript_dict)
  /\ pc = "join"
  /\ started = 1
  /\ joined = 0
  /\ result_pool = <<>>
  /\ wstate = [w \in WorkerIds |-> IF w = 0 THEN "spawned" ELSE "unstarted"]
  /\ widx = [w \in WorkerIds |-> 0]
  /\ wchunk = [w \in WorkerIds |-> <<>>]
  /\ assumed_sr = [w \in WorkerIds |-> 0]
  /\ datapoints = <<>>
  /\ speaker_embeddings = <<>>
  /\ norm_waves = <<>>
  /\ filepaths = <<>>
  /\ outcome = "none"
  /\ factory = "dict"
  /\ writes = {"files_used"}
  /\ cache_before = NoFile
  /\ draws = UnmovedDraws(Len(key_list))
  /\ saved = NoCorpus
  /\ loop_reads = {}
  /\ loaded = NotLoaded
  /\ NoReader

SpecWorker ==
  WorkerSpecInit /\ [][WorkerInit(0) \/ WorkerStep(0) \/ WorkerAppend(0)]_vars

\* ---------------------------------------------------- shuffle-only behaviours
\* fisher_yates_shuffle on every list of up to MaxShuffle elements, equal
\* elements included, from its call on; path_to_transcript_dict keeps the
\* list as it was passed.
ShuffleItems == {"a16.wav", "b16.wav", "c48.wav"}

ShuffleInit ==
  /\ path_to_transcript_dict \in
       UNION { [1..m -> ShuffleItems] : m \in 0..MaxShuffle }
  /\ key_list = path_to_transcript_dict
  /\ shuffle_i = Len(key_list) - 1
  /\ pc = "shuffle"
  /\ loading_processes = 1
  /\ rebuild_cache = FALSE
  /\ allow_unknown_symbols = FALSE
  /\ aligner_train_cache = NoFile
  /\ files_used = AuditText(path_to_transcript_dict)
  /\ key_splits = <<>>
  /\ started = 0
  /\ joined = 0
  /\ result_pool = <<>>
  /\ wstate = [w \in WorkerIds |-> "unstarted"]
  /\ widx = [w \in WorkerIds |-> 0]
  /\ wchunk = [w \in WorkerIds |-> <<>>]
  /\ assumed_sr = [w \in WorkerIds |-> 0]
  /\ datapoints = <<>>
  /\ speaker_embeddings = <<>>
  /\ norm_waves = <<>>
  /\ filepaths = <<>>
  /\ outcome = "none"
  /\ factory = "dict"
  /\ writes = {"files_used"}
  /\ cache_before = NoFile
  /\ draws = <<>>
  /\ saved = NoCorpus
  /\ loop_reads = {}
  /\ loaded = NotLoaded
  /\ NoReader

SpecShuffle == ShuffleInit /\ [][ShuffleStep]_vars

\* ------------------------------------------------------ one-build behaviours
\* One build from the end of its shuffle to the computed embeddings, for
\* every shuffled key list of up to MaxBuildKeys keys and every number of
\* processes: the partition, the processes in every interleaving, the joins
\* and the pooling.
BuildPaths ==
  {"a16.wav", "b16.wav", "c48.wav", "unreadable.wav", "nocodec.wav"}

BuildInit ==
  /\ path_to_transcript_dict \in InjectiveSeqs(BuildPaths, MaxBuildKeys)
  /\ key_list = path_to_transcript_dict
  /\ shuffle_i = 0
  /\ pc = "shuffle"
  /\ loading_processes \in 1..MaxProcs
  /\ rebuild_cache = FALSE
  /\ allow_unknown_symbols = FALSE
  /\ aligner_train_cache = NoFile
  /\ files_used = AuditText(path_to_transcript_dict)
  /\ key_splits = <<>>
  /\ started = 0
  /\ joined = 0
  /\ result_pool = <<>>
  /\ wstate = [w \in WorkerIds |-> "unstarted"]
  /\ widx = [w \in WorkerIds |-> 0]
  /\ wchunk = [w \in WorkerIds |-> <<>>]
  /\ assumed_sr = [w \in WorkerIds |-> 0]
  /\ datapoints = <<>>
  /\ speaker_embeddings = <<>>
  /\ norm_waves = <<>>
  /\ filepaths = <<>>
  /\ outcome = "none"
  /\ factory = "dict"
  /\ writes = {"files_used"}
  /\ cache_before = NoFile
  /\ draws = UnmovedDraws(Len(key_list))
  /\ saved = NoCorpus
  /\ loop_reads = {}
  /\ loaded = NotLoaded
  /\ NoReader

BuildNext ==
  \/ Partition
  \/ StartProcess
  \/ JoinProcess
  \/ Pool
  \/ AddSpeakerEmbeddings
  \/ \E w \in WorkerIds : WorkerInit(w) \/ WorkerStep(w) \/ WorkerAppend(w)

SpecBuild == BuildInit /\ [][BuildNext]_vars

\* ------------------------------------------------- __getitem__: lines 180-194
\* Mutant of NeedsDecoder: a decoder is made on every call.
NeedsDecoderAlways(decoder) == TRUE

\* if self.ap is None
NeedsDecoder(decoder) == decoder = NoDecoder

\* self.datapoints[index] of a list of n elements: indices -n .. n - 1 are
\* accepted, a negative one counting from the end; any other raises
\* IndexError.
InRange(index, n) == 0 - n <= index /\ index < n
Position(index, n) == IF index < 0 THEN n + index + 1 ELSE index + 1

\* What __getitem__ returns for index: tokens and speech features with the
\* decoder that made the features (the two lengths are derived from them)
\* and the speaker embedding; the IndexError of line 183 for an index out
\* of range.
Item(index, decoder) ==
  IF InRange(index, Len(datapoints))
    THEN LET p == Position(index, Len(datapoints)) IN
         [ kind |-> "item",
           tokens |-> datapoints[p][1],
           speech |-> [codes |-> datapoints[p][2], decoder |-> decoder],
           speaker_embedding |-> speaker_embeddings[p] ]
    ELSE [kind |-> "IndexError"]

\* Line 181: reader r calls __getitem__(index) on the view and tests
\* self.ap; the index, whatever it is, is not looked at before line 183.
GetCheck(r, index) ==
  /\ pc = "idle"
  /\ outcome = "returned"
  /\ rpc[r] = "idle"
  /\ ridx' = [ridx EXCEPT ![r] = index]
  /\ rpc' = [rpc EXCEPT ![r] = IF NeedsDecoder(ap) THEN "construct"
                                                   ELSE "lookup"]
  /\ overlap' = (overlap \/ \E q \in Readers : q # r /\ rpc[q] # "idle")
  /\ UNCHANGED <<ap, speech, got, built, args, disk, history, workers, corpus,
                 pc, key_list, shuffle_i, key_splits, started, joined,
                 result_pool, outcome>>

\* Line 182, right-hand side: CodecAudioPreprocessor(input_sr=-1) is called
\* and returns a new decoder, the built[r]-th of reader r, which the reader
\* holds; self.ap is as it was.
GetConstruct(r) ==
  /\ rpc[r] = "construct"
  /\ built' = [built EXCEPT ![r] = @ + 1]
  /\ rpc' = [rpc EXCEPT ![r] = "assign"]
  /\ UNCHANGED <<ap, ridx, speech, got, overlap, args, disk, history, workers,
                 corpus, pc, key_list, shuffle_i, key_splits, started, joined,
                 result_pool, outcome>>

\* Line 182, the store: self.ap = the decoder the reader has just
\* constructed, whatever self.ap holds by now.
GetAssign(r) ==
  /\ rpc[r] = "assign"
  /\ ap' = [by |-> r, nth |-> built[r]]
  /\ rpc' = [rpc EXCEPT ![r] = "lookup"]
  /\ UNCHANGED <<ridx, speech, got, built, overlap, args, disk, history,
                 workers, corpus, pc, key_list, shuffle_i, key_splits, started,
                 joined, result_pool, outcome>>

\* Lines 183 - 188: self.datapoints[index] is looked up, which raises
\* IndexError and ends the call for an index out of range; the tokens and
\* the lengths are locals made from the datapoint alone.
GetLookup(r) ==
  /\ rpc[r] = "lookup"
  /\ IF InRange(ridx[r], Len(datapoints))
       THEN /\ rpc' = [rpc EXCEPT ![r] = "decode"]
            /\ UNCHANGED <<ridx, got>>
       ELSE /\ got' = [reader |-> r, item |-> Item(ridx[r], NoDecoder)]
            /\ ridx' = [ridx EXCEPT ![r] = 0]
            /\ rpc' = [rpc EXCEPT ![r] = "idle"]
  /\ UNCHANGED <<ap, speech, built, overlap, args, disk, history, workers,
                 corpus, pc, key_list, shuffle_i, key_splits, started, joined,
                 result_pool, outcome>>

\* Line 189: speech = self.ap.indexes_to_codec_frames(...), with self.ap as
\* it is when this line runs.
GetDecode(r) ==
  /\ rpc[r] = "decode"
  /\ speech' = [speech EXCEPT ![r] = ap]
  /\ rpc' = [rpc EXCEPT ![r] = "return"]
  /\ UNCHANGED <<ap, ridx, got, built, overlap, args, disk, history, workers,
                 corpus, pc, key_list, shuffle_i, key_splits, started, joined,
                 result_pool, outcome>>

\* Lines 190 - 194: the call ends with the locals and
\* self.speaker_embeddings[index]; self.ap is not read again.
GetReturn(r) ==
  /\ rpc[r] = "return"
  /\ got' = [reader |-> r, item |-> Item(ridx[r], speech[r])]
  /\ ridx' = [ridx EXCEPT ![r] = 0]
  /\ speech' = [speech EXCEPT ![r] = NoDecoder]
  /\ rpc' = [rpc EXCEPT ![r] = "idle"]
  /\ UNCHANGED <<ap, built, overlap, args, disk, history, workers,
                 corpus, pc, key_list, shuffle_i, key_splits, started, joined,
                 result_pool, outcome>>

\* ------------------------------------------------------ one-view behaviours
\* The view a build with one process over an empty cache directory has
\* returned, every sample kept, over the first keys, up to MaxKeys, of a
\* dict of two samples, and the calls of __getitem__ on it by up to
\* MaxReaders readers, in every interleaving, with every index of the
\* datapoints, counted from the start or from the end, and the first index
\* out of range on either side.
ViewPaths == <<"a16.wav", "unknown.wav">>

ViewChunk(keys) ==
  [i \in 1..Len(keys) |->
     Entry(keys[i], File(keys[i]), File(keys[i]).strict # "ok")]

ViewInit ==
  /\ path_to_transcript_dict \in
       { SubSeq(ViewPaths, 1, n) : n \in 1..Len(ViewPaths) }
  /\ Len(path_to_transcript_dict) <= MaxKeys
  /\ key_list = path_to_transcript_dict
  /\ shuffle_i = 0
  /\ pc = "idle"
  /\ outcome = "returned"
  /\ loading_processes = 1
  /\ rebuild_cache = FALSE
  /\ allow_unknown_symbols = TRUE
  /\ key_splits = <<key_list>>
  /\ started = 1
  /\ joined = 1
  /\ result_pool = <<>>
  /\ wstate = [w \in WorkerIds |-> IF w = 0 THEN "done" ELSE "unstarted"]
  /\ widx = [w \in WorkerIds |-> IF w = 0 THEN Len(key_list) + 1 ELSE 0]
  /\ wchunk = [w \in WorkerIds |-> IF w = 0 THEN ViewChunk(key_list) ELSE <<>>]
  /\ assumed_sr = [w \in WorkerIds |-> IF w = 0 THEN 16000 ELSE 0]
  /\ LET pooled == ViewChunk(key_list) IN
       /\ datapoints = Zip(TextTensors(pooled), SpeechTensors(pooled))
       /\ norm_waves = NormWaves(pooled)
       /\ filepaths = FilePaths(pooled)
       /\ speaker_embeddings = Embeddings(NormWaves(pooled))
  /\ aligner_train_cache = Blob(datapoints, speaker_embeddings, filepaths)
  /\ files_used = AuditText(path_to_transcript_dict)
  /\ factory = "dict"
  /\ writes = {"files_used", "aligner_train_cache"}
  /\ cache_before = NoFile
  /\ draws = UnmovedDraws(Len(key_list))
  /\ saved = Corpus(datapoints, speaker_embeddings, filepaths)
  /\ loop_reads = { key_list[i] : i \in 1..Len(key_list) }
  /\ loaded = NotLoaded
  /\ NoReader

ViewNext ==
  \E r \in Readers :
    \/ \E index \in (0 - Len(datapoints) - 1)..Len(datapoints) :
         GetCheck(r, index)
    \/ GetConstruct(r)
    \/ GetAssign(r)
    \/ GetLookup(r)
    \/ GetDecode(r)
    \/ GetReturn(r)

SpecView == ViewInit /\ [][ViewNext]_vars

\* ================================================================== claims
Range(q) == { q[i] : i \in 1..Len(q) }

\* The running (or last) construction took the build branch of line 33.
BuildRun == "files_used" \in writes

\* Number of chunks worker w has appended to the result pool.
Chunks(w) ==
  Cardinality({ i \in 1..Len(result_pool) : result_pool[i].owner = w })

\* ---------------------------------------------------------------------- C1
\* C1: for every key list of length n >= 0 and every worker count w >= 1,
\* the slices key_list[i*n//w : (i+1)*n//w] are w contiguous slices whose
\* concatenation in order of i is the key list (every key in exactly one
\* slice), and any two slice sizes differ by at most one.
C1_PartitionCoverage ==
  pc = "start" =>
    /\ Len(key_splits) = loading_processes
    /\ ConcatAll(key_splits) = key_list
    /\ \A i, j \in 1..Len(key_splits) :
         Len(key_splits[i]) - Len(key_splits[j]) <= 1

\* Seven keys over three workers: slices of sizes 2, 2 and 3.
C1_Witness ==
  /\ pc = "start"
  /\ Len(key_list) = 7
  /\ loading_processes = 3
  /\ key_splits = << <<1, 2>>, <<3, 4>>, <<5, 6, 7>> >>

\* ---------------------------------------------------------------------- C2
Aligned(dps, embs, paths) ==
  /\ Len(dps) = Len(paths)
  /\ Len(embs) = Len(paths)
  /\ \A i \in 1..Len(paths) :
       /\ dps[i][1].src = paths[i]
       /\ dps[i][2].src = paths[i]
       /\ embs[i].of = paths[i]

\* C2: once the embeddings of a construction are computed, under every
\* interleaving and completion order of the workers, the datapoint list, the
\* speaker-embedding list and the source-path list have the same length and
\* at every index derive from the same source key, the embedding being that
\* of the normalized waveform of the same entry; the saved blob and the
\* returned view are aligned in the same way.
C2_IndexAlignment ==
  /\ (BuildRun /\ (pc \in {"save", "saving", "finish"} \/ outcome = "returned")) =>
       /\ Aligned(datapoints, speaker_embeddings, filepaths)
       /\ Len(norm_waves) = Len(filepaths)
       /\ \A i \in 1..Len(filepaths) :
            /\ norm_waves[i].src = filepaths[i]
            /\ speaker_embeddings[i].len = norm_waves[i].len
  /\ (outcome = "returned" /\ Loadable(aligner_train_cache)) =>
       Aligned(datapoints, speaker_embeddings, TorchLoad(aligner_train_cache)[4])

\* Two workers with one accepted sample each, the second worker's chunk
\* pooled first.
C2_Witness ==
  /\ outcome = "returned"
  /\ BuildRun
  /\ loading_processes = 2
  /\ Len(datapoints) = 2
  /\ filepaths[1] \in Range(key_splits[2])
  /\ filepaths[2] \in Range(key_splits[1])

\* ---------------------------------------------------------------------- C3
\* A construction with rebuild_cache = False over an existing cache blob is
\* running or has ended.
CachedRun ==
  /\ ~rebuild_cache
  /\ Exists(cache_before)
  /\ (pc # "idle" \/ outcome # "none")

\* C3: a construction with rebuild=false over an existing cache blob starts
\* no worker, does not invoke the map factory, writes neither the cache blob
\* nor the audit file, leaves the blob as it was, and the view it returns
\* holds the cached corpus; this holds for every such construction, however
\* many follow each other.
C3_CachedConstruction ==
  CachedRun =>
    /\ pc \in {"load", "finish", "idle"}
    /\ started = 0
    /\ \A w \in WorkerIds : wstate[w] = "unstarted"
    /\ factory # "called"
    /\ writes = {}
    /\ aligner_train_cache = cache_before
    /\ (pc = "finish" \/ outcome = "returned") =>
         /\ datapoints = TorchLoad(aligner_train_cache)[1]
         /\ speaker_embeddings = TorchLoad(aligner_train_cache)[3]

\* A factory was passed, the corpus came from the blob, the factory was not
\* called.
C3_Witness ==
  /\ CachedRun
  /\ outcome = "returned"
  /\ factory = "uncalled"
  /\ datapoints # <<>>

\* ---------------------------------------------------------------------- C4
PoolPhase == pc \in {"start", "join", "pool"}

\* C4 as claimed: every started worker, once it has ended, has appended
\* exactly one chunk, so with all workers ended the pool holds one chunk per
\* worker.
C4_EveryWorkerAppendsOnce ==
  PoolPhase =>
    /\ \A w \in Procs : Terminated(w) => Chunks(w) = 1
    /\ pc = "pool" => Len(result_pool) = loading_processes

\* C4 amended: a worker appends at most once, one chunk that is its whole
\* local accumulator, and only when no key of its partition is left; a
\* worker that ends by an exception appends nothing, so the pool holds
\* exactly one chunk per worker that completed its loop.
C4_AppendsOnceIfCompleted ==
  PoolPhase =>
    /\ \A w \in Procs :
         /\ Chunks(w) = IF wstate[w] = "done" THEN 1 ELSE 0
         /\ wstate[w] = "done" =>
              /\ widx[w] > Len(PathList(w))
              /\ \E i \in 1..Len(result_pool) :
                   result_pool[i] = [owner |-> w, chunk |-> wchunk[w]]
    /\ Len(result_pool) = Cardinality({ w \in Procs : wstate[w] = "done" })

\* All workers have ended: one by an exception, one with a chunk of accepted
\* samples.
C4_Witness ==
  /\ pc = "pool"
  /\ \E w \in Procs : wstate[w] = "crashed"
  /\ \E w \in Procs : wstate[w] = "done" /\ wchunk[w] # <<>>
  /\ Len(result_pool) = 1

\* ---------------------------------------------------------------------- C5
\* C5: the coordinator reads the result pool only after every started worker
\* has ended: in every state in which the build is past the joins (pooling,
\* embedding, saving, ended) all loading_processes workers were started and
\* have terminated, so a worker that never ends keeps the build from
\* pooling, embedding and saving.
C5_PoolOnlyAfterJoin ==
  (BuildRun /\ pc \notin {"shuffle", "start", "join"}) =>
    /\ started = loading_processes
    /\ joined = loading_processes
    /\ \A w \in Procs : wstate[w] \in {"done", "crashed"}

\* Pooling starts with both workers ended, the second one first.
C5_Witness ==
  /\ pc = "pool"
  /\ loading_processes = 2
  /\ Len(result_pool) = 2
  /\ result_pool[1].owner = 1

\* ---------------------------------------------------------------------- C6
\* C6: inside a worker, a failure of a per-sample stage (audio load,
\* resampling, text encoding, codec encoding) only skips that key: no worker
\* ends by an exception once it has entered the loop over its partition, it
\* goes on to the remaining keys and appends its chunk.
C6_StageFailureOnlySkips ==
  \A w \in Procs : wstate[w] = "crashed" => widx[w] = 0

\* ---------------------------------------------------------------------- C7
\* C7 as claimed: when a worker has ended by an unhandled exception, the
\* construction writes no cache blob.
C7_WorkerFailureAborts ==
  (BuildRun /\ \E w \in Procs : wstate[w] = "crashed") =>
    "aligner_train_cache" \notin writes

\* C7 amended: a construction that ends with RuntimeError has not opened the
\* cache blob; a worker that ended by an exception does not abort the
\* construction: a cache blob is written only with every worker ended and a
\* non-empty pooled list, which holds every sample of the workers that
\* completed and no key of a partition whose worker ended by an exception.
C7_SurvivorsArePersisted ==
  /\ outcome = "RuntimeError" => "aligner_train_cache" \notin writes
  /\ "aligner_train_cache" \in writes =>
       /\ datapoints # <<>>
       /\ \A w \in Procs :
            /\ Terminated(w)
            /\ wstate[w] = "crashed" =>
                 Range(PathList(w)) \cap Range(filepaths) = {}
            /\ wstate[w] = "done" =>
                 \A i \in 1..Len(wchunk[w]) :
                   wchunk[w][i].path \in Range(filepaths)
       /\ Loadable(aligner_train_cache) =>
            TorchLoad(aligner_train_cache)[4] = filepaths

\* One worker ended by an exception, the construction returned, and the blob
\* holds the other worker's samples.
C7_Witness ==
  /\ outcome = "returned"
  /\ "aligner_train_cache" \in writes
  /\ \E w \in Procs : wstate[w] = "crashed" /\ PathList(w) # <<>>
  /\ Loadable(aligner_train_cache)
  /\ TorchLoad(aligner_train_cache)[4] # <<>>

\* ---------------------------------------------------------------------- C8
\* C8: a cache blob that was valid when a construction began is never left
\* partially overwritten: at every point of the save, and after a save that
\* failed, the file is a complete blob (the previous one or the new one).
C8_NeverPartiallyOverwritten ==
  Loadable(cache_before) => Loadable(aligner_train_cache)

\* ---------------------------------------------------------------------- C9
\* C9: with an empty pooled list the construction raises RuntimeError, does
\* not write the cache blob, leaves the blob that existed before as it was
\* and returns no view: a build reaches the save, and returns, only with at
\* least one datapoint.
C9_EmptyCorpusRaises ==
  /\ outcome = "RuntimeError" =>
       /\ pc = "idle"
       /\ Len(datapoints) = 0
       /\ "aligner_train_cache" \notin writes
       /\ aligner_train_cache = cache_before
  /\ (pc = "saving" \/ "aligner_train_cache" \in writes) => Len(datapoints) > 0
  /\ (BuildRun /\ (pc = "finish" \/ outcome = "returned")) => Len(datapoints) > 0

\* A forced rebuild over a valid blob ended with RuntimeError and the blob is
\* the one from before.
C9_Witness ==
  /\ outcome = "RuntimeError"
  /\ rebuild_cache
  /\ Loadable(cache_before)
  /\ aligner_train_cache = cache_before

\* --------------------------------------------------------------------- C10
\* min_len <= frames / sr <= max_len and
\* min_len <= resampled / 16000 <= max_len, for the file at path.
BothDurationsInBounds(path, resampled) ==
  /\ min_len_in_seconds * File(path).sr <= File(path).frames
  /\ File(path).frames <= max_len_in_seconds * File(path).sr
  /\ min_len_in_seconds * canonical_sr <= resampled
  /\ resampled <= max_len_in_seconds * canonical_sr

\* C10: a sample is in a worker chunk, in the result pool, among the
\* datapoints, the embeddings or in the cache blob only if its duration is
\* within [min_len, max_len] both as sample_count / native_rate and as
\* resampled_sample_count / 16000.
C10_DurationFilter ==
  /\ \A w \in WorkerIds : \A i \in 1..Len(wchunk[w]) :
       BothDurationsInBounds(wchunk[w][i].path, wchunk[w][i].wave.len)
  /\ \A c \in 1..Len(result_pool) : \A i \in 1..Len(result_pool[c].chunk) :
       BothDurationsInBounds(result_pool[c].chunk[i].path,
                             result_pool[c].chunk[i].wave.len)
  /\ \A i \in 1..Len(datapoints) :
       BothDurationsInBounds(datapoints[i][1].src,
                             ResampledLen(File(datapoints[i][1].src).frames,
                                          File(datapoints[i][1].src).sr))
  /\ \A i \in 1..Len(speaker_embeddings) :
       BothDurationsInBounds(speaker_embeddings[i].of, speaker_embeddings[i].len)
  /\ Loadable(aligner_train_cache) =>
       LET tuple == TorchLoad(aligner_train_cache) IN
       \A i \in 1..Len(tuple[4]) :
         BothDurationsInBounds(tuple[4][i], tuple[3][i].len)

\* The 3 second and the 20 second file at 16 kHz, one worker: the corpus is
\* the 3 second file alone, the audit file lists both.
C10_Witness ==
  /\ outcome = "returned"
  /\ BuildRun
  /\ loading_processes = 1
  /\ path_to_transcript_dict = <<"a16.wav", "long16.wav">>
  /\ files_used = AuditText(<<"a16.wav", "long16.wav">>)
  /\ key_list = <<"long16.wav", "a16.wav">>
  /\ filepaths = <<"a16.wav">>
  /\ Len(datapoints) = 1
  /\ Len(speaker_embeddings) = 1

\* --------------------------------------------------------------------- C11
\* The construction took the build branch and has flattened the pool.
Assembled == BuildRun /\ pc \in {"embed", "save", "saving", "finish", "idle"}

\* The file at path passes every stage of the loop of a worker with the
\* assumed rate, the text stage left aside.
PassesOtherStages(path, assumed) ==
  /\ Strip(File(path).transcript) # <<>>
  /\ File(path).readable
  /\ File(path).sr = assumed
  /\ BothDurationsInBounds(path, ResampledLen(File(path).frames, File(path).sr))
  /\ File(path).resample = "ok"
  /\ File(path).codec = "ok"

UnknownSymbol(path) ==
  File(path).strict = "KeyError" /\ File(path).permissive = "ok"

\* C11: of the keys of a worker that completed its loop, a sample that
\* passes every other stage and whose transcript holds an unknown symbol
\* (strict encoding raises KeyError, permissive encoding succeeds) is in the
\* worker's chunk and in the corpus if and only if allow_unknown_symbols is
\* true, encoded in the permissive mode; a sample whose transcript encodes
\* strictly is in both whatever the flag says.
C11_UnknownSymbolPolicy ==
  \A w \in Procs : wstate[w] = "done" =>
    \A k \in 1..Len(PathList(w)) :
      LET path == PathList(w)[k]
          inChunk == \E i \in 1..Len(wchunk[w]) : wchunk[w][i].path = path
          inCorpus == \E i \in 1..Len(filepaths) :
                        /\ filepaths[i] = path
                        /\ datapoints[i][1] =
                             [src |-> path,
                              handle_missing |-> UnknownSymbol(path)]
      IN  PassesOtherStages(path, assumed_sr[w]) =>
            /\ UnknownSymbol(path) =>
                 /\ inChunk <=> allow_unknown_symbols
                 /\ Assembled => (inCorpus <=> allow_unknown_symbols)
            /\ File(path).strict = "ok" =>
                 /\ inChunk
                 /\ Assembled => inCorpus

\* The blob holds the sample with the unknown symbol, from a construction
\* that allowed it; a rebuild over the same map that does not allow it has
\* returned a corpus without it.
C11_Witness ==
  /\ outcome = "returned"
  /\ BuildRun
  /\ ~allow_unknown_symbols
  /\ path_to_transcript_dict = <<"a16.wav", "unknown.wav">>
  /\ Loadable(cache_before)
  /\ "unknown.wav" \in Range(TorchLoad(cache_before)[4])
  /\ filepaths = <<"a16.wav">>
  /\ \A w \in Procs : wstate[w] = "done"

\* --------------------------------------------------------------------- C12
\* Number of positions of q that hold x.
Count(q, x) == Cardinality({ i \in 1..Len(q) : q[i] = x })

\* The list after the exchanges of the positions d[k][1] and d[k][2]
\* (0-based) for k = 1, 2, ..., Len(d), and nothing else, done to lst.
RECURSIVE Exchanged(_, _)
Exchanged(lst, d) ==
  IF d = <<>> THEN lst
  ELSE LET i == Head(d)[1] + 1
           j == Head(d)[2] + 1
       IN  Exchanged([p \in 1..Len(lst) |->
                        IF p = i THEN lst[j] ELSE IF p = j THEN lst[i]
                        ELSE lst[p]],
                     Tail(d))

\* C12: at every point of fisher_yates_shuffle, for every input list and
\* every sequence of draws, the list has the length and the multiset of
\* elements of the input; the k-th draw is made for i = n - k with j in
\* 0..i, so i runs from n - 1 down to 1 and no further, and the list is the
\* input with exactly those positions i and j exchanged; when the loop has
\* ended n - 1 draws were made, none for a list of length 0 or 1, which is
\* left as it was.
C12_ShuffleIsPermutation ==
  pc = "shuffle" =>
    LET n == Len(path_to_transcript_dict) IN
      /\ Len(key_list) = n
      /\ \A x \in Range(path_to_transcript_dict) \cup Range(key_list) :
           Count(key_list, x) = Count(path_to_transcript_dict, x)
      /\ \A k \in 1..Len(draws) :
           /\ draws[k][1] = n - k
           /\ draws[k][1] \in 1..(n - 1)
           /\ draws[k][2] \in 0..draws[k][1]
      /\ key_list = Exchanged(path_to_transcript_dict, draws)
      /\ shuffle_i < 1 => Len(draws) = (IF n = 0 THEN 0 ELSE n - 1)
      /\ n <= 1 => (draws = <<>> /\ key_list = path_to_transcript_dict)

\* A list of four elements, two of them equal, after its three draws, with
\* every position changed.
C12_Witness ==
  /\ pc = "shuffle"
  /\ shuffle_i = 0
  /\ path_to_transcript_dict = <<"a16.wav", "b16.wav", "a16.wav", "c48.wav">>
  /\ key_list = <<"c48.wav", "a16.wav", "b16.wav", "a16.wav">>
  /\ Len(draws) = 3
  /\ draws[1][1] = 3
  /\ draws[3][1] = 1

C14_AuditFileFirst ==
  /\ BuildRun =>
       /\ files_used.kind = "text"
       /\ files_used.keys = path_to_transcript_dict
       /\ Len(files_used.keys) = Len(key_list)
       /\ Range(filepaths) \subseteq Range(files_used.keys)
  /\ (pc = "shuffle" /\ draws = <<>>) =>
       /\ BuildRun
       /\ started = 0
       /\ \A w \in WorkerIds : wstate[w] = "unstarted"
  /\ (draws # <<>> \/ started > 0) => BuildRun
  /\ CachedRun => "files_used" \notin writes

\* The shuffle has changed the order, the workers have ended, one of the two
\* keys was dropped for its blank transcript, and the audit file lists both
\* keys in the order of the map.
C14_Witness ==
  /\ BuildRun
  /\ pc = "pool"
  /\ path_to_transcript_dict = <<"a16.wav", "blank.wav">>
  /\ key_list = <<"blank.wav", "a16.wav">>
  /\ files_used.keys = <<"a16.wav", "blank.wav">>
  /\ Len(result_pool) = 1
  /\ Len(result_pool[1].chunk) = 1

\* --------------------------------------------------------------------- C15
Blank(path) == Strip(File(path).transcript) = <<>>

\* C15: a key whose transcript is empty after trimming is never passed to
\* the sf.read of the sample loop; it is in no worker chunk, in no chunk of
\* the result pool, not among the datapoints, the embeddings and the paths
\* of the corpus or of the blob; the loop goes on after it: a worker that
\* completed its loop has read the audio of every other key of its
\* partition.
C15_BlankTranscriptSkipped ==
  /\ \A path \in AllPaths : Blank(path) =>
       /\ path \notin loop_reads
       /\ \A w \in WorkerIds : \A i \in 1..Len(wchunk[w]) :
            wchunk[w][i].path # path
       /\ \A c \in 1..Len(result_pool) : \A i \in 1..Len(result_pool[c].chunk) :
            result_pool[c].chunk[i].path # path
       /\ path \notin Range(filepaths)
       /\ \A i \in 1..Len(datapoints) : datapoints[i][1].src # path
       /\ \A i \in 1..Len(norm_waves) : norm_waves[i].src # path
       /\ \A i \in 1..Len(speaker_embeddings) : speaker_embeddings[i].of # path
       /\ Loadable(aligner_train_cache) =>
            LET tuple == TorchLoad(aligner_train_cache) IN
            /\ path \notin Range(tuple[4])
            /\ \A i \in 1..Len(tuple[3]) : tuple[3][i].of # path
  /\ \A w \in Procs : wstate[w] = "done" =>
       \A k \in 1..Len(PathList(w)) :
         ~Blank(PathList(w)[k]) => PathList(w)[k] \in loop_reads

\* One worker, the key with the blank transcript first in its partition: the
\* loop skipped it, read the audio of the other key, and the corpus and the
\* embeddings hold the other key alone.
C15_Witness ==
  /\ outcome = "returned"
  /\ BuildRun
  /\ loading_processes = 1
  /\ key_list = <<"blank.wav", "a16.wav">>
  /\ loop_reads = {"a16.wav"}
  /\ filepaths = <<"a16.wav">>
  /\ Len(speaker_embeddings) = 1
  /\ speaker_embeddings[1].of = "a16.wav"

\* --------------------------------------------------------------------- C16
\* Worker w has set its assumed sampling rate (line 124).
HasAssumedRate(w) ==
  wstate[w] \in {"loop", "done"} \/ (wstate[w] = "crashed" /\ widx[w] >= 1)

\* C16: a worker that has an assumed sampling rate took it from the first
\* key of its partition, whose file it could read, so from the first file
\* of the partition it loaded; every sample of its chunk has that native
\* rate, so any two samples of one chunk, in the worker and in the result
\* pool, have the same native rate.
C16_OneRatePerWorker ==
  /\ \A w \in WorkerIds : HasAssumedRate(w) =>
       /\ PathList(w) # <<>>
       /\ File(PathList(w)[1]).readable
       /\ assumed_sr[w] = File(PathList(w)[1]).sr
       /\ \A i \in 1..Len(wchunk[w]) :
            /\ File(wchunk[w][i].path).sr = assumed_sr[w]
            /\ wchunk[w][i].speech.sr = assumed_sr[w]
  /\ \A c \in 1..Len(result_pool) :
       \A i, j \in 1..Len(result_pool[c].chunk) :
         File(result_pool[c].chunk[i].path).sr =
           File(result_pool[c].chunk[j].path).sr

\* The file at 48 kHz first, two files at 16 kHz after it: the worker has
\* ended and its chunk holds the first file alone.
C16_Witness ==
  /\ wstate[0] = "done"
  /\ PathList(0) = <<"c48.wav", "a16.wav", "b16.wav">>
  /\ assumed_sr[0] = 48000
  /\ Len(wchunk[0]) = 1
  /\ wchunk[0][1].path = "c48.wav"
  /\ Len(result_pool) = 1

\* --------------------------------------------------------------------- C17
\* Worker w has run and the read of the first key of its partition could
\* not succeed: the partition is empty or its first file is unreadable.
FirstKeyUnreadable(w) ==
  /\ wstate[w] \notin {"unstarted", "spawned"}
  /\ (Len(PathList(w)) = 0 \/ ~File(PathList(w)[1]).readable)

\* C17: a worker that could not read the first key of its partition has
\* ended by the exception: it has entered no loop and read no key of its
\* partition, it has no chunk and appends none, and once the corpus is
\* assembled no key of its partition is in it; every other worker that
\* completed its loop has appended its chunk, and the corpus holds the
\* samples of that chunk.
C17_FirstKeyFatalForPartition ==
  \A w \in Procs :
    /\ FirstKeyUnreadable(w) =>
         /\ wstate[w] = "crashed"
         /\ widx[w] = 0
         /\ wchunk[w] = <<>>
         /\ Chunks(w) = 0
         /\ Range(PathList(w)) \cap loop_reads = {}
         /\ Assembled => Range(PathList(w)) \cap Range(filepaths) = {}
    /\ wstate[w] = "done" =>
         /\ pc \in {"start", "join", "pool"} => Chunks(w) = 1
         /\ Assembled =>
              \A i \in 1..Len(wchunk[w]) :
                wchunk[w][i].path \in Range(filepaths)

\* Two workers over four keys: the first key of the first partition is
\* unreadable and the good key after it was not tried; the chunk of the
\* other worker is the corpus.
C17_Witness ==
  /\ pc = "save"
  /\ loading_processes = 2
  /\ key_splits = << <<"unreadable.wav", "a16.wav">>,
                     <<"b16.wav", "c48.wav">> >>
  /\ wstate[0] = "crashed"
  /\ "a16.wav" \notin loop_reads
  /\ wstate[1] = "done"
  /\ filepaths = <<"b16.wav">>
  /\ Len(speaker_embeddings) = 1

\* --------------------------------------------------------------------- C18
\* Number of decoders constructed for the view.
RECURSIVE BuiltUpTo(_)
BuiltUpTo(r) == IF r = 0 THEN 0 ELSE built[r] + BuiltUpTo(r - 1)

Decoders == BuiltUpTo(MaxReaders)

\* C18 as claimed: at most one decoder is ever constructed for a view, also
\* with several readers calling __getitem__ on it concurrently.
C18_AtMostOneDecoder == Decoders <= 1

\* C18 amended: a view has no decoder until a __getitem__ has constructed
\* one and stored it, and the decoder it has is one that a reader
\* constructed; while the view has none, no reader is past the store and no
\* call has ended. A reader constructs at most one decoder, also when its
\* call ends with IndexError, and every speech a reader holds, and every
\* item returned, was decoded with a decoder that a reader constructed for
\* the view. As long as no __getitem__ was called while another one was
\* running, one decoder at most was constructed, it is the one the view
\* keeps once the call that constructed it has stored it, and every item
\* returned was decoded with it; readers that call __getitem__ concurrently
\* can each construct a decoder, the one stored last being kept.
C18_OneDecoderPerReader ==
  /\ ap # NoDecoder => (ap.by \in Readers /\ ap.nth = built[ap.by])
  /\ Decoders = 0 => ap = NoDecoder
  /\ ap = NoDecoder =>
       /\ got.item = NoItem
       /\ \A r \in Readers :
            /\ rpc[r] \in {"idle", "construct", "assign"}
            /\ built[r] = (IF rpc[r] = "assign" THEN 1 ELSE 0)
  /\ \A r \in Readers : built[r] <= 1
  /\ got.item # NoItem => (got.reader \in Readers /\ Decoders >= 1)
  /\ \A r \in Readers :
       speech[r] # NoDecoder =>
         /\ rpc[r] = "return"
         /\ speech[r].by \in Readers
         /\ built[speech[r].by] >= 1
  /\ got.item.kind = "item" =>
       /\ got.item.speech.decoder # NoDecoder
       /\ got.item.speech.decoder.by \in Readers
       /\ built[got.item.speech.decoder.by] >= 1
  /\ ~overlap =>
       /\ Decoders <= 1
       /\ (\A r \in Readers : rpc[r] # "assign") =>
            ((ap = NoDecoder) <=> (Decoders = 0))
       /\ got.item.kind = "item" => got.item.speech.decoder = ap

\* No call overlapped another: a call of the first reader constructed the
\* decoder, and the item the second reader got, the last datapoint of two,
\* was decoded with that decoder.
C18_Witness ==
  /\ ~overlap
  /\ Decoders = 1
  /\ built[1] = 1
  /\ got.reader = 2
  /\ got.item.kind = "item"
  /\ got.item.speech.decoder = [by |-> 1, nth |-> 1]
  /\ got.item.tokens.src = "unknown.wav"
  /\ filepaths = <<"a16.wav", "unknown.wav">>

\* --------------------------------------------------------------------- C19
\* A construction with rebuild_cache = False over a blob that exists and
\* cannot be loaded is running or has ended.
MalformedRun ==
  /\ ~rebuild_cache
  /\ Exists(cache_before)
  /\ ~Loadable(cache_before)
  /\ (pc # "idle" \/ outcome # "none")

\* C19: a construction with rebuild_cache = False over an existing blob
\* that cannot be loaded is on the load path or has ended with the error of
\* the load: it has started no worker, invoked no factory, written no file,
\* holds no datapoint, and the blob is as it was, so the same holds for the
\* next such construction; the load is attempted, and its error raised,
\* only over a blob that exists and without a rebuild asked for.
C19_LoadFailurePropagates ==
  /\ MalformedRun =>
       /\ pc \in {"load", "idle"}
       /\ pc = "idle" => outcome = "LoadError"
       /\ started = 0
       /\ \A w \in WorkerIds : wstate[w] = "unstarted"
       /\ factory # "called"
       /\ writes = {}
       /\ datapoints = <<>>
       /\ aligner_train_cache = cache_before
  /\ (pc = "load" \/ outcome = "LoadError") =>
       /\ Exists(cache_before)
       /\ Exists(aligner_train_cache)
       /\ ~rebuild_cache
  /\ outcome = "LoadError" => ~Loadable(cache_before)

\* The load of the blob an interrupted save left has failed; the blob is
\* still the one the save left, the audit file is the one of the build whose
\* save was interrupted.
C19_Witness ==
  /\ MalformedRun
  /\ outcome = "LoadError"
  /\ pc = "idle"
  /\ aligner_train_cache = Partial
  /\ factory = "uncalled"
  /\ files_used.kind = "text"

\* --------------------------------------------------------------------- C20
\* The paths a process keeps of path_list from its position on, given the
\* assumed rate and the outcome of every key; ok is false when one of the
\* keys ends the process.
RECURSIVE Kept(_, _, _)
Kept(path_list, assumed, allow_unknown) ==
  IF path_list = <<>> THEN [ok |-> TRUE, paths |-> <<>>]
  ELSE LET r == ProcessSample(Head(path_list), assumed, allow_unknown)
           rest == Kept(Tail(path_list), assumed, allow_unknown)
       IN  IF r.kind = "raise" \/ ~rest.ok THEN [ok |-> FALSE, paths |-> <<>>]
           ELSE IF r.kind = "accept"
             THEN [ok |-> TRUE, paths |-> <<Head(path_list)>> \o rest.paths]
             ELSE rest

\* The paths of the chunk the process of path_list contributes, in the
\* order of path_list; none when the process ends by an exception.
ChunkPaths(path_list, allow_unknown) ==
  IF path_list = <<>> THEN <<>>
  ELSE IF ~File(path_list[1]).readable THEN <<>>
  ELSE Kept(path_list, File(path_list[1]).sr, allow_unknown).paths

\* The orders in which the processes can have appended.
ChunkOrders ==
  { o \in [1..loading_processes -> Procs] :
      \A i, j \in 1..loading_processes : i # j => o[i] # o[j] }

\* C20: the path list of an assembled corpus is, for some order of the
\* processes, the concatenation of what each process keeps of its
\* partition, which depends on the shuffled key list, the number of
\* processes and the outcomes of the keys alone: under every interleaving
\* the set of paths is the same, the samples of a process stay together and
\* in the order of its partition, no path occurs twice and every path is a
\* key of the map.
C20_CorpusUpToChunkOrder ==
  (Assembled /\ Len(key_splits) = loading_processes) =>
    /\ \E o \in ChunkOrders :
         filepaths = ConcatAll([k \in 1..loading_processes |->
                       ChunkPaths(key_splits[o[k] + 1], allow_unknown_symbols)])
    /\ Range(filepaths) =
         UNION { Range(ChunkPaths(key_splits[w + 1], allow_unknown_symbols)) :
                 w \in Procs }
    /\ \A i, j \in 1..Len(filepaths) : i # j => filepaths[i] # filepaths[j]
    /\ Range(filepaths) \subseteq Range(path_to_transcript_dict)

\* Two processes over four keys; the second process, which keeps one of its
\* two keys, appended first, and the two samples of the first process follow
\* in the order of its partition.
C20_Witness ==
  /\ pc = "save"
  /\ loading_processes = 2
  /\ key_list = <<"a16.wav", "b16.wav", "c48.wav", "unreadable.wav">>
  /\ filepaths = <<"c48.wav", "a16.wav", "b16.wav">>
  /\ Len(speaker_embeddings) = 3

====
